---- MODULE Spec2Model ----
(***************************************************************************)
(* Model of the training core of crypto-ai-bot (src/train.py):            *)
(* train_all_models, train_one_model, get_frequent_failures and            *)
(* get_feature_hash_from_tensor, and of the /run handler of src/app.py.    *)
(*                                                                         *)
(* Conventions                                                             *)
(*  - The horizon labels of train.py:199 are written "dangi", "junggi",    *)
(*    "janggi" (short, mid, long term).                                    *)
(*  - Floating point feature values are integers counted in thousandths    *)
(*    (1004 stands for 1.004); values whose third decimal is 5 are left    *)
(*    out of the input sets, because round(v, 2) on such a value depends   *)
(*    on its binary expansion.                                             *)
(*  - Metrics are integers counted in hundredths (100 stands for 1.0).     *)
(*  - sha1 is taken to be collision free: a digest is represented by the   *)
(*    string it digests.                                                   *)
(*  - "Raising" means raising an instance of Exception; print is taken     *)
(*    not to raise.                                                        *)
(*  - unit_log, called, attempted, pt_written, meta_written and fi_saved   *)
(*    record what the running train_one_model call has logged, called and  *)
(*    written: a batch calls every unit once and every file name holds the *)
(*    unit's symbol and horizon, so no call reads or writes what another   *)
(*    call of the batch wrote.                                             *)
(*  - phases lists the phases the attempt for the current architecture    *)
(*    has entered; loss tells whether the loss of the last batch was       *)
(*    finite.                                                              *)
(*  - load_existing_failure_hashes belongs to failure_db, which is not     *)
(*    part of src/: it is modelled from section 4.2 of the specification   *)
(*    (an unreadable store gives the empty set), store being the store it  *)
(*    reads.                                                               *)
(*  - Spec is a whole batch; SpecSplit is one call of train_one_model up   *)
(*    to the split (lines 56-102) over many datasets; SpecCurate is lines  *)
(*    104-122 over many stores; SpecTrain is lines 124-196 with several    *)
(*    batches per corrective pass and per epoch; SpecHash fingerprints     *)
(*    pairs of windows; SpecRun is a sequence of /run requests.            *)
(***************************************************************************)
EXTENDS Integers, Sequences, FiniteSets, TLC

\* ---------------------------------------------------------------- bounds
NumSymbols == 2          \* length of SYMBOLS (data.utils, imported)
FeatureWidth == 2        \* input_size of the datasets of the model
MaxWrong == 3            \* longest list returned by the wrong-prediction store
MaxRows == 6             \* most rows of the failure-pattern log
MaxSamples == 16         \* longest dataset of the runs that stop after the split
MaxUpdates == 2          \* model.updates counts optimizer steps up to this many
MaxHashRows == 2         \* most rows of a window fingerprinted on its own
TrainSamples == 42       \* valid samples of the runs over lines 124-189
TrainCorrective == 17    \* corrective candidates of those runs
MaxRequests == 4         \* /run requests handled one after another

\* ------------------------------------------------------- program constants
NUM_CLASSES == 16
MinFeatureRows == 30
MinSequences == 5
FrequentMinCount == 5
WrongPasses == 6
WrongBatchSize == 16
TrainBatchSize == 32
DefaultMaxEpochs == 20
ValDivisor == 5          \* int(len * 0.2) = len \div 5
PerfectAccuracy == 100   \* 1.0, in hundredths
MaxGuardLabels == 2
COOLTIME == 3600         \* app.py:13, seconds

Strategies == <<"dangi", "junggi", "janggi">>
SYMBOLS == [i \in 1..NumSymbols |-> i]
ModelTypes == <<"lstm", "cnn_lstm", "transformer">>

\* ------------------------------------------------------------ pure helpers
Abs(v) == IF v < 0 THEN 0 - v ELSE v

\* round(float(val), 2) followed by str(): the printed value keeps the sign
\* of a negative value that rounds to zero ("-0.0").
Round2_trunc(v) == [neg |-> v < 0, h |-> Abs(v) \div 10]
Round2(v) == [neg |-> v < 0, h |-> (Abs(v) + 5) \div 10]

Invalid == [valid |-> FALSE, digest |-> <<>>]

get_feature_hash_from_tensor(x) ==
    IF x.ndim # 2 \/ x.rows = 0
    THEN Invalid
    ELSE [valid |-> TRUE,
          digest |-> [i \in 1..Len(x.last) |-> Round2(x.last[i])]]

\* counter[row[0]] += 1 for one row (Counter: a missing key counts 0)
CounterAdd(counter, h) ==
    IF h \in DOMAIN counter
    THEN [counter EXCEPT ![h] = @ + 1]
    ELSE [k \in (DOMAIN counter) \cup {h} |-> IF k = h THEN 1 ELSE counter[k]]

RECURSIVE CountRows(_, _, _)
CountRows(rows, i, counter) ==
    IF i > Len(rows)
    THEN counter
    ELSE CountRows(rows, i + 1, CounterAdd(counter, rows[i]))

EmptyCounter == [k \in {} |-> 0]

\* cnt >= min_count
MeetsMinCount_off(cnt, min_count) == cnt > min_count
MeetsMinCount(cnt, min_count) == cnt >= min_count

\* db = [ok, rows]: ok is FALSE when connecting to or reading
\* failure_patterns.db raises (the bare except returns set())
get_frequent_failures_partial(db, min_count) ==
    LET counter == CountRows(db.rows, 1, EmptyCounter)
    IN {h \in DOMAIN counter : MeetsMinCount(counter[h], min_count)}
get_frequent_failures(db, min_count) ==
    IF ~db.ok
    THEN {}
    ELSE LET counter == CountRows(db.rows, 1, EmptyCounter)
         IN {h \in DOMAIN counter : MeetsMinCount(counter[h], min_count)}

\* ------------------------------------------------- validity filter, split
Min(a, b) == IF a < b THEN a ELSE b

\* isinstance(xi, np.ndarray) and xi.ndim == 2
ValidX(xi) == xi.arr /\ xi.ndim = 2

\* isinstance(yi, (int, np.integer)) and 0 <= yi < NUM_CLASSES
ValidY(yi) == yi.int /\ 0 <= yi.v /\ yi.v < NUM_CLASSES

\* the positions of zip(X_raw, y_raw) that the filter loop keeps, in order
RECURSIVE FilterIdx(_, _, _)
FilterIdx(X, y, i) ==
    IF i > Min(Len(X), Len(y))
    THEN <<>>
    ELSE (IF ValidX(X[i]) /\ ValidY(y[i]) THEN <<i>> ELSE <<>>)
         \o FilterIdx(X, y, i + 1)

Pick(s, idx) == [j \in 1..Len(idx) |-> s[idx[j]]]

\* len(X_filtered) < 5
FewSequences_4(n) == n < 4
FewSequences(n) == n < MinSequences

\* int(len(X_raw) * 0.2); for the lengths of the model the float product
\* truncates to len \div 5
ValLen(n) == n \div ValDivisor

\* s[:-v] and s[-v:] of Python (for v = 0: the empty and the whole sequence)
PyButLast(s, v) == IF v = 0 THEN <<>> ELSE SubSeq(s, 1, Len(s) - v)
PyLast_head(s, v) == SubSeq(s, 1, v)
PyLast(s, v) == IF v = 0 THEN s ELSE SubSeq(s, Len(s) - v + 1, Len(s))

\* --------------------------------------------------- corrective curation
\* isinstance(s, (list, tuple)) and len(s) >= 2, xb an ndarray of shape
\* (window, input_size), yb an integer class index
ValidWrong(s, window, input_size) ==
    /\ s.seq
    /\ s.xb.arr /\ s.xb.ndim = 2
    /\ s.xb.rows = window /\ s.xb.cols = input_size
    /\ ValidY(s.yb)

\* feature_hash in used_hashes or in failure_hashes or in frequent_failures
Excluded_nodedup(h, used, failure_hashes, frequent_failures) ==
    h \in failure_hashes \/ h \in frequent_failures
Excluded(h, used, failure_hashes, frequent_failures) ==
    h \in used \/ h \in failure_hashes \/ h \in frequent_failures

\* the loop over wrong_data from position i on: [filtered, used]
RECURSIVE CurateFrom(_, _, _, _, _, _)
CurateFrom(wd, i, acc, window, input_size, excl) ==
    IF i > Len(wd)
    THEN acc
    ELSE LET s == wd[i]
             h == get_feature_hash_from_tensor(s.xb)
         IN IF ~ValidWrong(s, window, input_size)
               \/ Excluded(h, acc.used, excl.failure_hashes, excl.frequent_failures)
            THEN CurateFrom(wd, i + 1, acc, window, input_size, excl)
            ELSE CurateFrom(wd, i + 1,
                            [filtered |-> Append(acc.filtered, [xb |-> s.xb, yb |-> s.yb]),
                             used |-> acc.used \cup {h}],
                            window, input_size, excl)

Curate(wd, window, input_size, failure_hashes, frequent_failures) ==
    CurateFrom(wd, 1, [filtered |-> <<>>, used |-> {}], window, input_size,
               [failure_hashes |-> failure_hashes,
                frequent_failures |-> frequent_failures])

\* acc >= 1.0 and len(set(y_val)) <= 2
Distinct(s) == Cardinality({s[i] : i \in 1..Len(s)})
OverfitGuard_strict(acc, y_val) == acc >= PerfectAccuracy /\ Distinct(y_val) < MaxGuardLabels
OverfitGuard(acc, y_val) == acc >= PerfectAccuracy /\ Distinct(y_val) <= MaxGuardLabels

\* number of batches of a DataLoader over n samples
Batches(n, size) == (n + size - 1) \div size

\* ------------------------------------------------- values the collaborators
\* ------------------------------------------------- of the model may return
NoTensor == [arr |-> FALSE, ndim |-> 0, rows |-> 0, cols |-> 0, last |-> <<>>, early |-> 0]

\* a vector of FeatureWidth components, the first one a (in thousandths)
Vec(a) == [i \in 1..FeatureWidth |-> IF i = 1 THEN a ELSE 0]

\* an ndarray window whose last row is Vec(a); early tells earlier rows apart
Tensor(rows, cols, a, early) ==
    [arr |-> TRUE, ndim |-> 2, rows |-> rows, cols |-> cols, last |-> Vec(a), early |-> early]

IntLabel(v) == [int |-> TRUE, v |-> v]
Wrong(xb, v) == [seq |-> TRUE, xb |-> xb, yb |-> IntLabel(v)]

\* create_dataset results: n samples, labels cycling through k classes,
\* windows at badx not two-dimensional, labels at bady out of range
Dataset(n, k, badx, bady) ==
    [none |-> FALSE,
     X |-> [i \in 1..n |-> [arr |-> TRUE, ndim |-> IF i \in badx THEN 1 ELSE 2, id |-> i]],
     y |-> [i \in 1..n |-> IntLabel(IF i \in bady THEN NUM_CLASSES ELSE (i - 1) % k)]]
NoDataset == [none |-> TRUE, X |-> <<>>, y |-> <<>>]

BatchDatasets ==
    {NoDataset, Dataset(0, 1, {}, {}), Dataset(4, 2, {}, {}),
     Dataset(10, 2, {}, {}), Dataset(16, 3, {2}, {})}

\* the datasets of the runs that stop after the split: every length up to
\* MaxSamples, one or three classes, and the kinds of malformed samples
NotArray == [arr |-> FALSE, ndim |-> 0, id |-> 0]
Cube == [arr |-> TRUE, ndim |-> 3, id |-> 0]
NotInt == [int |-> FALSE, v |-> 0]
DatasetsOfLen(n) ==
    {Dataset(n, k, bx, by) : k \in {1, 3}, bx \in {{}, {2}}, by \in {{}, {n}}}
    \cup (IF n < 4 THEN {}
          ELSE {[Dataset(n, 3, {}, {}) EXCEPT !.X[1] = NotArray, !.X[n] = Cube,
                                              !.y[2] = NotInt, !.y[3] = IntLabel(-1)]})
AllDatasets == {NoDataset} \cup UNION {DatasetsOfLen(n) : n \in 0..MaxSamples}

NoWindow == [int |-> FALSE, v |-> 0]
Windows == {NoWindow, [int |-> TRUE, v |-> 0], [int |-> TRUE, v |-> 2]}

NoFeatures == [none |-> TRUE, rows |-> 0]
FeatureTables ==
    {NoFeatures} \cup {[none |-> FALSE, rows |-> r] : r \in {MinFeatureRows - 1, MinFeatureRows}}

FpOf(a) == get_feature_hash_from_tensor(Tensor(1, FeatureWidth, a, 0))

BatchFailureHashes == {{FpOf(2004)}}

\* the failure-case store behind load_existing_failure_hashes (failure_db,
\* imported at line 9): ok is FALSE when it is unavailable or malformed
NoStore == [ok |-> FALSE, hashes |-> {}]
BatchStores == {[ok |-> TRUE, hashes |-> fh] : fh \in BatchFailureHashes}

\* load_existing_failure_hashes(): the fingerprints the store records; an
\* unavailable or malformed store gives the empty set and nothing is raised
load_existing_failure_hashes(st) == IF st.ok THEN st.hashes ELSE {}

NoDb == [ok |-> FALSE, rows |-> <<>>]
BatchDbs == {NoDb,
             [ok |-> TRUE, rows |-> [i \in 1..FrequentMinCount |-> FpOf(3004)]]}
BatchWrongData ==
    {<<>>,
     <<Wrong(Tensor(2, FeatureWidth, 1004, 1), 3),
       Wrong(Tensor(2, FeatureWidth, 996, 2), 4),
       Wrong(Tensor(2, FeatureWidth, 2004, 3), 5),
       Wrong(Tensor(2, FeatureWidth, 3004, 3), 5)>>}

\* the stores of the runs over lines 104-122 (window 2)
WrongPool ==
    {Wrong(Tensor(2, FeatureWidth, 1004, 1), 3),
     Wrong(Tensor(2, FeatureWidth, 996, 2), 4),
     Wrong(Tensor(2, FeatureWidth, 3004, 1), 3),
     Wrong(Tensor(2, FeatureWidth, 1006, 1), 3),
     Wrong(Tensor(3, FeatureWidth, 1004, 1), 3),
     Wrong(Tensor(2, FeatureWidth, 1006, 2), NUM_CLASSES),
     [seq |-> FALSE, xb |-> NoTensor, yb |-> IntLabel(0)]}

RECURSIVE SeqsUpTo(_, _)
SeqsUpTo(S, n) ==
    IF n = 0 THEN {<<>>}
    ELSE LET shorter == SeqsUpTo(S, n - 1)
         IN shorter \cup {Append(t, x) : t \in {u \in shorter : Len(u) = n - 1}, x \in S}

AllWrongData == SeqsUpTo(WrongPool, MaxWrong)
AllFailureHashes == SUBSET {FpOf(1004), FpOf(1006)}
\* stores that can be read, and two that cannot
AllStores ==
    {[ok |-> TRUE, hashes |-> fh] : fh \in AllFailureHashes}
    \cup {NoStore, [ok |-> FALSE, hashes |-> {FpOf(1004)}]}

\* a log of na rows of FpOf(1004) and nb rows of FpOf(3004), interleaved
Rows(na, nb) ==
    [i \in 1..(na + nb) |->
        IF i <= 2 * Min(na, nb)
        THEN (IF i % 2 = 1 THEN FpOf(1004) ELSE FpOf(3004))
        ELSE (IF na > nb THEN FpOf(1004) ELSE FpOf(3004))]
\* logs that can be read, with row counts around FrequentMinCount, and two
\* that cannot
AllDbs ==
    {[ok |-> TRUE, rows |-> Rows(na, nb)] :
        na \in {0} \cup ((MaxRows - 2)..MaxRows), nb \in {0, 1}}
    \cup {NoDb, [ok |-> FALSE, rows |-> Rows(FrequentMinCount, 0)]}

\* the tensors get_feature_hash_from_tensor is given when called on its own:
\* windows of 1 to MaxHashRows rows whose last row is <<a, b, 0, ...>>, the
\* empty two-dimensional tensor, a vector and a cube
HashValues == {-1006, -1004, -6, -4, -1, 0, 1, 4, 6, 14, 1004, 1006, 1014}
HashWindow(rows, a, b, early) ==
    [arr |-> TRUE, ndim |-> 2, rows |-> rows, cols |-> FeatureWidth,
     last |-> [i \in 1..FeatureWidth |-> IF i = 1 THEN a ELSE IF i = 2 THEN b ELSE 0],
     early |-> early]
HashInputs ==
    {HashWindow(r, a, b, r - 1) : r \in 1..MaxHashRows, a \in HashValues, b \in {0, 994}}
    \cup {[arr |-> TRUE, ndim |-> 2, rows |-> 0, cols |-> FeatureWidth, last |-> <<>>,
            early |-> 0],
          [arr |-> TRUE, ndim |-> 1, rows |-> FeatureWidth, cols |-> 0, last |-> <<>>,
           early |-> 0],
          [arr |-> TRUE, ndim |-> 3, rows |-> 1, cols |-> FeatureWidth, last |-> <<>>,
           early |-> 0]}

\* the corrective candidates of the runs over lines 124-189: TrainCorrective
\* windows of pairwise different fingerprints
TrainWrongData ==
    [i \in 1..TrainCorrective |->
        Wrong(Tensor(2, FeatureWidth, 1000 + 10 * i, 0), i % NUM_CLASSES)]

\* time.time() when app.py is loaded, and by how much two successive
\* readings of it may differ (the system clock can be set back)
StartClock == 2 * COOLTIME
ClockSteps == {-1, 0, COOLTIME - 1, COOLTIME, COOLTIME + 1}

\* what recommend_all returns: None or an empty list (both false), or messages
Recommendations == {<<>>, <<"msg1">>, <<"msg1", "msg2">>}

EvalResults == {[acc |-> 100, f1 |-> 100, loss |-> 1], [acc |-> 50, f1 |-> 40, loss |-> 70]}
NoMetrics == [acc |-> 0, f1 |-> 0, loss |-> 0]

\* model.updates: the optimizer steps since get_model (and the checkpoint load)
FreshModel == [updates |-> 0]

\* --------------------------------------------------------------- the state
VARIABLES
    all_pc, si, ki, invoked,                      \* train_all_models
    pc, skip, e,                                  \* train_one_model: position
    symbol, strategy, max_epochs,                 \* its arguments
    df, df_feat, window, X_raw, y_raw, input_size,
    val_len, X_train, X_val, y_train, y_val,
    store, failure_hashes, db, frequent_failures, wrong_data, wrong_filtered, used_hashes,
    mi, model, rep, epoch, batch, loss, metrics,
    unit_log, called, attempted, pt_written, meta_written, fi_saved, phases,
    hash_in, hash_out,                            \* get_feature_hash_from_tensor alone
    clock, served, run_pc, now, last_run_time, results,           \* app.py: run
    recommended, sent, response, completed

driverVars == <<all_pc, si, ki, invoked>>
ctlVars == <<pc, skip, e>>
argVars == <<symbol, strategy, max_epochs>>
dataVars == <<df, df_feat, window, X_raw, y_raw, input_size,
              val_len, X_train, X_val, y_train, y_val>>
curVars == <<store, failure_hashes, db, frequent_failures, wrong_data, wrong_filtered,
             used_hashes>>
trainVars == <<mi, model, rep, epoch, batch, loss, metrics>>
obsVars == <<unit_log, called, attempted, pt_written, meta_written, fi_saved, phases>>
unitVars == <<driverVars, ctlVars, argVars, dataVars, curVars, trainVars, obsVars>>
hashVars == <<hash_in, hash_out>>
appVars == <<clock, served, run_pc, now, last_run_time, results,
             recommended, sent, response, completed>>
vars == <<unitVars, hashVars, appVars>>

\* the locals of a train_one_model call before its first statement
FreshLocals ==
    /\ skip = "" /\ e = ""
    /\ df = "unset" /\ df_feat = NoFeatures /\ window = NoWindow
    /\ X_raw = <<>> /\ y_raw = <<>> /\ input_size = 0
    /\ val_len = -1 /\ X_train = <<>> /\ X_val = <<>> /\ y_train = <<>> /\ y_val = <<>>
    /\ store = NoStore /\ failure_hashes = {} /\ db = NoDb /\ frequent_failures = {}
    /\ wrong_data = <<>>
    /\ wrong_filtered = <<>> /\ used_hashes = {}
    /\ mi = 0 /\ model = FreshModel /\ rep = 0 /\ epoch = 0 /\ batch = 0
    /\ loss = "unset" /\ metrics = NoMetrics
    /\ unit_log = <<>> /\ called = {} /\ attempted = {}
    /\ pt_written = {} /\ meta_written = {} /\ fi_saved = {} /\ phases = <<>>

\* get_feature_hash_from_tensor is not being called on its own
NoHashCall == hash_in = <<>> /\ hash_out = <<>>

\* app.py is loaded (lines 12-13) and no request has come in
AppLoaded ==
    /\ clock = StartClock /\ served = 0
    /\ run_pc = "idle" /\ now = 0 /\ last_run_time = 0
    /\ results = <<>> /\ recommended = FALSE /\ sent = 0 /\ response = ""
    /\ completed = <<>>

Init ==
    /\ all_pc = "loop" /\ si = 1 /\ ki = 1 /\ invoked = <<>>
    /\ pc = "idle"
    /\ symbol = 0 /\ strategy = "" /\ max_epochs = DefaultMaxEpochs
    /\ FreshLocals
    /\ NoHashCall
    /\ AppLoaded

ResetLocals ==
    /\ skip' = "" /\ e' = ""
    /\ df' = "unset" /\ df_feat' = NoFeatures /\ window' = NoWindow
    /\ X_raw' = <<>> /\ y_raw' = <<>> /\ input_size' = 0
    /\ val_len' = -1 /\ X_train' = <<>> /\ X_val' = <<>>
    /\ y_train' = <<>> /\ y_val' = <<>>
    /\ store' = NoStore /\ failure_hashes' = {} /\ db' = NoDb /\ frequent_failures' = {}
    /\ wrong_data' = <<>>
    /\ wrong_filtered' = <<>> /\ used_hashes' = {}
    /\ mi' = 0 /\ model' = FreshModel /\ rep' = 0 /\ epoch' = 0 /\ batch' = 0
    /\ loss' = "unset" /\ metrics' = NoMetrics
    /\ unit_log' = <<>> /\ called' = {} /\ attempted' = {}
    /\ pt_written' = {} /\ meta_written' = {} /\ fi_saved' = {} /\ phases' = <<>>

\* ------------------------------------------------------ train_all_models
LastPair == si = Len(Strategies) /\ ki = NumSymbols

\* the pair the loops of train_all_models are at: strat outer, sym inner
CurrentPair_swapped ==
    LET n == (si - 1) * NumSymbols + ki - 1
    IN <<Strategies[(n % Len(Strategies)) + 1], SYMBOLS[(n \div Len(Strategies)) + 1]>>
CurrentPair == <<Strategies[si], SYMBOLS[ki]>>

\* try: train_one_model(sym, strat)
Call ==
    /\ all_pc = "loop" /\ pc = "idle"
    /\ all_pc' = "call"
    /\ invoked' = Append(invoked, CurrentPair)
    /\ strategy' = CurrentPair[1] /\ symbol' = CurrentPair[2]
    /\ max_epochs' = DefaultMaxEpochs
    /\ pc' = "L59"
    /\ ResetLocals
    /\ UNCHANGED <<si, ki, hashVars, appVars>>

\* the call returned, or raised into the except clause of line 202; then
\* the next sym, the next strat, or the end of train_all_models
Return ==
    /\ all_pc = "call" /\ pc \in {"returned", "raised"}
    /\ pc' = "idle"
    /\ IF LastPair
       THEN all_pc' = "done" /\ UNCHANGED <<si, ki>>
       ELSE /\ all_pc' = "loop"
            /\ IF ki = NumSymbols
               THEN si' = si + 1 /\ ki' = 1
               ELSE ki' = ki + 1 /\ si' = si
    /\ UNCHANGED <<invoked, skip, e, argVars, dataVars, curVars, trainVars, obsVars,
                   hashVars, appVars>>

\* ------------------------------------------------------ train_one_model
\* a collaborator raises: control goes to the except clause of line 191
Raise(what) == pc' = "except" /\ e' = what /\ skip' = skip

\* a fail-fast return
Skip(why) == pc' = "returned" /\ skip' = why /\ e' = e

Goto(l) == pc' = l /\ UNCHANGED <<skip, e>>

Calls(f) == called' = called \cup {f}
OtherObs == UNCHANGED <<unit_log, attempted, pt_written, meta_written, fi_saved, phases>>

\* what no statement of train.py touches
Elsewhere == UNCHANGED <<hashVars, appVars>>

\* df is None or df.empty
NoData(d) == d \in {"None", "empty"}

\* df_feat is None or len(df_feat) < 30
FewFeatures_none(t) == t.none
FewFeatures(t) == t.none \/ t.rows < MinFeatureRows

\* not isinstance(window, int) or window <= 0
BadWindow(w) == ~w.int \/ w.v <= 0

\* X_raw is None or y_raw is None or len(X_raw) == 0
NoSamples(d) == d.none \/ Len(d.X) = 0

\* lines 59-61
GetKline ==
    /\ pc = "L59"
    /\ Calls("get_kline_by_strategy")
    /\ \/ \E d \in {"None", "empty", "ok"} :
            /\ df' = d
            /\ IF NoData(d) THEN Skip("no_data") ELSE Goto("L63")
       \/ Raise("get_kline_by_strategy") /\ UNCHANGED df
    /\ OtherObs
    /\ UNCHANGED <<driverVars, argVars, df_feat, window, X_raw, y_raw, input_size,
                   val_len, X_train, X_val, y_train, y_val, curVars, trainVars>>
    /\ Elsewhere

\* lines 63-69
ComputeFeatures ==
    /\ pc = "L63"
    /\ Calls("compute_features")
    /\ \/ \E t \in FeatureTables :
            /\ df_feat' = t
            /\ IF FewFeatures(t) THEN Skip("few_features") ELSE Goto("L72")
       \/ Raise("compute_features") /\ UNCHANGED df_feat
    /\ OtherObs
    /\ UNCHANGED <<driverVars, argVars, df, window, X_raw, y_raw, input_size,
                   val_len, X_train, X_val, y_train, y_val, curVars, trainVars>>
    /\ Elsewhere

\* lines 71-75
FindBestWindow ==
    /\ pc = "L72"
    /\ Calls("find_best_window")
    /\ \/ \E w \in Windows :
            /\ window' = w
            /\ IF BadWindow(w) THEN Skip("no_window") ELSE Goto("L77")
       \/ Raise("find_best_window") /\ UNCHANGED window
    /\ OtherObs
    /\ UNCHANGED <<driverVars, argVars, df, df_feat, X_raw, y_raw, input_size,
                   val_len, X_train, X_val, y_train, y_val, curVars, trainVars>>
    /\ Elsewhere

\* lines 77-80
CreateDataset(datasets) ==
    /\ pc = "L77"
    /\ Calls("create_dataset")
    /\ \/ \E d \in datasets :
            /\ X_raw' = d.X /\ y_raw' = d.y
            /\ IF NoSamples(d) THEN Skip("no_dataset") ELSE Goto("L83")
       \/ Raise("create_dataset") /\ UNCHANGED <<X_raw, y_raw>>
    /\ OtherObs
    /\ UNCHANGED <<driverVars, argVars, df, df_feat, window, input_size,
                   val_len, X_train, X_val, y_train, y_val, curVars, trainVars>>
    /\ Elsewhere

\* lines 83-102: the validity filter, the two length checks and the split
FilterAndSplit ==
    /\ pc = "L83"
    /\ LET idx == FilterIdx(X_raw, y_raw, 1)
           X_filtered == Pick(X_raw, idx)
           y_filtered == Pick(y_raw, idx)
       IN IF FewSequences(Len(X_filtered))
          THEN /\ Skip("few_sequences")
               /\ UNCHANGED <<X_raw, y_raw, input_size, val_len,
                              X_train, X_val, y_train, y_val>>
          ELSE /\ X_raw' = X_filtered
               /\ y_raw' = y_filtered
               /\ input_size' = FeatureWidth
               /\ val_len' = ValLen(Len(X_filtered))
               /\ IF ValLen(Len(X_filtered)) = 0
                  THEN /\ Skip("no_validation")
                       /\ UNCHANGED <<X_train, X_val, y_train, y_val>>
                  ELSE /\ Goto("L105")
                       /\ X_train' = PyButLast(X_filtered, ValLen(Len(X_filtered)))
                       /\ X_val' = PyLast(X_filtered, ValLen(Len(X_filtered)))
                       /\ y_train' = PyButLast(y_filtered, ValLen(Len(X_filtered)))
                       /\ y_val' = PyLast(y_filtered, ValLen(Len(X_filtered)))
    /\ UNCHANGED <<driverVars, argVars, df, df_feat, window, curVars, trainVars, obsVars>>
    /\ Elsewhere

\* line 105: st is what the failure-case store holds when it is read
LoadFailureHashes(choices) ==
    /\ pc = "L105"
    /\ Calls("load_existing_failure_hashes")
    /\ \E st \in choices :
         /\ store' = st
         /\ failure_hashes' = load_existing_failure_hashes(st)
    /\ Goto("L106")
    /\ OtherObs
    /\ UNCHANGED <<driverVars, argVars, dataVars, db, frequent_failures, wrong_data,
                   wrong_filtered, used_hashes, trainVars>>
    /\ Elsewhere

\* line 106: d is what failure_patterns.db holds when it is read
GetFrequentFailures(choices) ==
    /\ pc = "L106"
    /\ \E d \in choices :
         /\ db' = d
         /\ frequent_failures' = get_frequent_failures(d, FrequentMinCount)
    /\ Goto("L109")
    /\ UNCHANGED <<driverVars, argVars, dataVars, store, failure_hashes, wrong_data,
                   wrong_filtered, used_hashes, trainVars, obsVars>>
    /\ Elsewhere

\* line 109
LoadWrongData(choices) ==
    /\ pc = "L109"
    /\ Calls("load_training_prediction_data")
    /\ \/ \E wd \in choices : wrong_data' = wd /\ Goto("L110")
       \/ Raise("load_training_prediction_data") /\ UNCHANGED wrong_data
    /\ OtherObs
    /\ UNCHANGED <<driverVars, argVars, dataVars, store, failure_hashes, db,
                   frequent_failures, wrong_filtered, used_hashes, trainVars>>
    /\ Elsewhere

\* lines 110-122, then the first model_type of line 124
CurateWrongData ==
    /\ pc = "L110"
    /\ LET r == Curate(wrong_data, window.v, input_size, failure_hashes, frequent_failures)
       IN wrong_filtered' = r.filtered /\ used_hashes' = r.used
    /\ mi' = 1
    /\ Goto("L125")
    /\ UNCHANGED <<driverVars, argVars, dataVars, store, failure_hashes, db,
                   frequent_failures, wrong_data, model, rep, epoch, batch, loss, metrics,
                   obsVars>>
    /\ Elsewhere

model_type == ModelTypes[mi]

\* the phase p of the attempt for model_type is running: phases lists the
\* phases of the attempt in the order they were entered
Phase(p) ==
    phases' = IF phases # <<>> /\ phases[Len(phases)] = p THEN phases ELSE Append(phases, p)

\* line 125
GetModel ==
    /\ pc = "L125"
    /\ Calls("get_model")
    /\ attempted' = attempted \cup {model_type}
    /\ phases' = <<>>
    /\ \/ model' = FreshModel /\ Goto("L127")
       \/ Raise("get_model") /\ UNCHANGED model
    /\ UNCHANGED <<driverVars, argVars, dataVars, curVars, mi, rep, epoch, batch, loss,
                   metrics, unit_log, pt_written, meta_written, fi_saved>>
    /\ Elsewhere

\* where control goes when the primary loop of line 157 starts at epoch ep
EpochOrEval(ep) ==
    IF ep < max_epochs /\ Batches(Len(X_train), TrainBatchSize) > 0
    THEN /\ pc' = "L159" /\ epoch' = ep /\ batch' = 0
    ELSE /\ pc' = "L166" /\ epoch' = IF ep < max_epochs THEN max_epochs ELSE ep
         /\ batch' = 0

\* if wrong_filtered: (line 138)
HasCorrective_never(wf) == FALSE
HasCorrective(wf) == wf # <<>>

\* lines 126-135 and the test of line 138: when a checkpoint exists it is
\* loaded, and a failed load is swallowed; with or without it the model has
\* had no optimizer step in this call
LoadCheckpoint ==
    /\ pc = "L127"
    /\ UNCHANGED model
    /\ Phase("checkpoint")
    /\ IF HasCorrective(wrong_filtered)
       THEN pc' = "L146" /\ rep' = 0 /\ batch' = 0 /\ UNCHANGED epoch
       ELSE EpochOrEval(0) /\ UNCHANGED rep
    /\ UNCHANGED <<skip, e>>
    /\ UNCHANGED <<driverVars, argVars, dataVars, curVars, mi, loss, metrics,
                   unit_log, called, attempted, pt_written, meta_written, fi_saved>>
    /\ Elsewhere

\* optimizer.zero_grad(); loss.backward(); optimizer.step()
Step(m) == [m EXCEPT !.updates = Min(@ + 1, MaxUpdates)]

\* not torch.isfinite(loss): the continue of line 150 and the break of line
\* 162 leave the batch before optimizer.step()
SkipUpdate_steps(m) == Step(m)
SkipUpdate(m) == m

\* lines 145-151: one batch of a corrective pass
WrongBatch ==
    /\ pc = "L146"
    /\ Phase("corrective")
    /\ \/ /\ \/ loss' = "finite" /\ model' = Step(model)
             \/ loss' = "nonfinite" /\ model' = SkipUpdate(model)     \* continue
          /\ UNCHANGED <<skip, e>>
          /\ IF batch + 1 < Batches(Len(wrong_filtered), WrongBatchSize)
             THEN pc' = "L146" /\ batch' = batch + 1 /\ UNCHANGED <<rep, epoch>>
             ELSE IF rep + 1 < WrongPasses
                  THEN pc' = "L146" /\ rep' = rep + 1 /\ batch' = 0 /\ UNCHANGED epoch
                  ELSE EpochOrEval(0) /\ rep' = rep + 1
       \/ Raise("model") /\ UNCHANGED <<model, rep, epoch, batch, loss>>
    /\ UNCHANGED <<driverVars, argVars, dataVars, curVars, mi, metrics,
                   unit_log, called, attempted, pt_written, meta_written, fi_saved>>
    /\ Elsewhere

\* lines 157-163: one batch of a primary epoch
TrainBatch ==
    /\ pc = "L159"
    /\ Phase("primary")
    /\ \/ /\ loss' = "finite" /\ model' = Step(model)
          /\ UNCHANGED <<skip, e>>
          /\ IF batch + 1 < Batches(Len(X_train), TrainBatchSize)
             THEN pc' = "L159" /\ batch' = batch + 1 /\ UNCHANGED epoch
             ELSE EpochOrEval(epoch + 1)
       \/ /\ loss' = "nonfinite" /\ model' = SkipUpdate(model)        \* break
          /\ UNCHANGED <<skip, e>>
          /\ EpochOrEval(epoch + 1)
       \/ Raise("model") /\ UNCHANGED <<model, epoch, batch, loss>>
    /\ UNCHANGED <<driverVars, argVars, dataVars, curVars, mi, rep, metrics,
                   unit_log, called, attempted, pt_written, meta_written, fi_saved>>
    /\ Elsewhere

\* lines 166-174
Evaluate ==
    /\ pc = "L166"
    /\ Phase("evaluate")
    /\ \/ \E m \in EvalResults : metrics' = m /\ Goto("L176")
       \/ Raise("model") /\ UNCHANGED metrics
    /\ UNCHANGED <<driverVars, argVars, dataVars, curVars, mi, model, rep, epoch, batch, loss,
                   unit_log, called, attempted, pt_written, meta_written, fi_saved>>
    /\ Elsewhere

\* the next model_type of line 124, or the end of the try block
NextModelType ==
    IF mi < Len(ModelTypes)
    THEN mi' = mi + 1 /\ Goto("L125")
    ELSE mi' = mi /\ pc' = "returned" /\ UNCHANGED <<skip, e>>

Entry(kind, arg, m) ==
    [symbol |-> symbol, strategy |-> strategy, kind |-> kind, arg |-> arg,
     acc |-> m.acc, f1 |-> m.f1, loss |-> m.loss]

\* lines 176-179
RejectOverfit ==
    /\ pc = "L176"
    /\ OverfitGuard(metrics.acc, y_val)
    /\ Phase("reject")
    /\ Calls("log_training_result")
    /\ \/ /\ unit_log' = Append(unit_log, Entry("overfit", model_type, metrics))
          /\ NextModelType
       \/ Raise("log_training_result") /\ UNCHANGED <<unit_log, mi>>
    /\ UNCHANGED <<driverVars, argVars, dataVars, curVars, model, rep, epoch, batch, loss,
                   metrics, attempted, pt_written, meta_written, fi_saved>>
    /\ Elsewhere

\* the statement after torch.save: save_model_metadata, line 182
AfterWeights_log == "L183"
AfterWeights == "L182"

\* line 181
SaveWeights ==
    /\ pc = "L176"
    /\ ~OverfitGuard(metrics.acc, y_val)
    /\ Phase("persist")
    /\ Calls("torch.save")
    /\ \/ pt_written' = pt_written \cup {model_type} /\ Goto(AfterWeights)
       \/ Raise("torch.save") /\ UNCHANGED pt_written
    /\ UNCHANGED <<driverVars, argVars, dataVars, curVars, trainVars,
                   unit_log, attempted, meta_written, fi_saved>>
    /\ Elsewhere

\* line 182
SaveMetadata ==
    /\ pc = "L182"
    /\ Calls("save_model_metadata")
    /\ \/ meta_written' = meta_written \cup {model_type} /\ Goto("L183")
       \/ Raise("save_model_metadata") /\ UNCHANGED meta_written
    /\ UNCHANGED <<driverVars, argVars, dataVars, curVars, trainVars,
                   unit_log, attempted, pt_written, fi_saved, phases>>
    /\ Elsewhere

\* line 183
LogResult ==
    /\ pc = "L183"
    /\ Calls("log_training_result")
    /\ \/ unit_log' = Append(unit_log, Entry("model", model_type, metrics)) /\ Goto("L186")
       \/ Raise("log_training_result") /\ UNCHANGED unit_log
    /\ UNCHANGED <<driverVars, argVars, dataVars, curVars, trainVars,
                   attempted, pt_written, meta_written, fi_saved, phases>>
    /\ Elsewhere

\* the bare except of lines 188-189: the failure is printed and the loop of
\* line 124 goes on
SwallowImportanceFailure_raise == Raise("compute_feature_importance") /\ mi' = mi
SwallowImportanceFailure == NextModelType

\* lines 185-189: a failure of either call is swallowed
FeatureImportance ==
    /\ pc = "L186"
    /\ Calls("compute_feature_importance")
    /\ \/ fi_saved' = fi_saved \cup {model_type} /\ NextModelType
       \/ UNCHANGED fi_saved /\ SwallowImportanceFailure
    /\ UNCHANGED <<driverVars, argVars, dataVars, curVars, model, rep, epoch, batch, loss,
                   metrics, unit_log, attempted, pt_written, meta_written, phases>>
    /\ Elsewhere

\* where the except clause of lines 191-196 leaves the call
HandlerExit_reraise == "raised"
HandlerExit == "returned"

\* log_training_result(symbol, strategy, f"실패({str(e)})", 0.0, 0.0, 0.0)
FailedEntry_metrics(what) == Entry("failed", what, metrics)
FailedEntry(what) == Entry("failed", what, NoMetrics)

\* lines 191-196: the failed outcome is logged; a failure to log is swallowed
ExceptHandler ==
    /\ pc = "except"
    /\ Calls("log_training_result")
    /\ \/ unit_log' = Append(unit_log, FailedEntry(e))
       \/ UNCHANGED unit_log
    /\ pc' = HandlerExit
    /\ UNCHANGED <<skip, e>>
    /\ UNCHANGED <<driverVars, argVars, dataVars, curVars, trainVars,
                   attempted, pt_written, meta_written, fi_saved, phases>>
    /\ Elsewhere

TrainOneModel ==
    \/ GetKline \/ ComputeFeatures \/ FindBestWindow
    \/ CreateDataset(BatchDatasets) \/ FilterAndSplit
    \/ LoadFailureHashes(BatchStores) \/ GetFrequentFailures(BatchDbs)
    \/ LoadWrongData(BatchWrongData) \/ CurateWrongData
    \/ GetModel \/ LoadCheckpoint \/ WrongBatch \/ TrainBatch \/ Evaluate
    \/ RejectOverfit \/ SaveWeights \/ SaveMetadata \/ LogResult \/ FeatureImportance
    \/ ExceptHandler

Next == Call \/ Return \/ TrainOneModel

Spec == Init /\ [][Next]_vars

\* ---------------------------------------------- runs that stop after the split
\* train_one_model(symbol, strategy) called on its own, lines 56-102
InitSplit ==
    /\ all_pc = "direct" /\ si = 1 /\ ki = 1 /\ invoked = <<>>
    /\ pc = "L59"
    /\ symbol = SYMBOLS[1]
    /\ strategy \in {Strategies[i] : i \in 1..Len(Strategies)}
    /\ max_epochs = DefaultMaxEpochs
    /\ FreshLocals
    /\ NoHashCall
    /\ AppLoaded

NextSplit ==
    \/ GetKline \/ ComputeFeatures \/ FindBestWindow
    \/ CreateDataset(AllDatasets) \/ FilterAndSplit \/ ExceptHandler

SpecSplit == InitSplit /\ [][NextSplit]_vars

\* ------------------------------------------------- runs over lines 104-122
\* train_one_model right after the split of a dataset of 5 valid samples
InitCurate ==
    /\ all_pc = "direct" /\ si = 1 /\ ki = 1 /\ invoked = <<>>
    /\ pc = "L105" /\ skip = "" /\ e = ""
    /\ symbol = SYMBOLS[1] /\ strategy = Strategies[1] /\ max_epochs = DefaultMaxEpochs
    /\ df = "ok" /\ df_feat = [none |-> FALSE, rows |-> MinFeatureRows]
    /\ window = [int |-> TRUE, v |-> 2]
    /\ LET d == Dataset(MinSequences, 3, {}, {})
           v == ValLen(MinSequences)
       IN /\ X_raw = d.X /\ y_raw = d.y
          /\ val_len = v
          /\ X_train = PyButLast(d.X, v) /\ X_val = PyLast(d.X, v)
          /\ y_train = PyButLast(d.y, v) /\ y_val = PyLast(d.y, v)
    /\ input_size = FeatureWidth
    /\ store = NoStore /\ failure_hashes = {} /\ db = NoDb /\ frequent_failures = {}
    /\ wrong_data = <<>>
    /\ wrong_filtered = <<>> /\ used_hashes = {}
    /\ mi = 0 /\ model = FreshModel /\ rep = 0 /\ epoch = 0 /\ batch = 0
    /\ loss = "unset" /\ metrics = NoMetrics
    /\ unit_log = <<>>
    /\ called = {"get_kline_by_strategy", "compute_features", "find_best_window",
                 "create_dataset"}
    /\ attempted = {} /\ pt_written = {} /\ meta_written = {} /\ fi_saved = {}
    /\ phases = <<>>
    /\ NoHashCall
    /\ AppLoaded

NextCurate ==
    \/ LoadFailureHashes(AllStores) \/ GetFrequentFailures(AllDbs)
    \/ LoadWrongData(AllWrongData) \/ CurateWrongData \/ ExceptHandler

SpecCurate == InitCurate /\ [][NextCurate]_vars

\* ------------------------------- get_feature_hash_from_tensor on its own
\* train_all_models has not been called
NotTraining ==
    /\ all_pc = "loop" /\ si = 1 /\ ki = 1 /\ invoked = <<>>
    /\ pc = "idle"
    /\ symbol = 0 /\ strategy = "" /\ max_epochs = DefaultMaxEpochs
    /\ FreshLocals

InitHash ==
    /\ hash_in \in HashInputs \X HashInputs
    /\ hash_out = <<>>
    /\ NotTraining
    /\ AppLoaded

\* the function applied to each of the two tensors
HashBoth ==
    /\ hash_out = <<>>
    /\ hash_out' = <<get_feature_hash_from_tensor(hash_in[1]),
                     get_feature_hash_from_tensor(hash_in[2])>>
    /\ UNCHANGED <<hash_in, unitVars, appVars>>

NextHash == HashBoth

SpecHash == InitHash /\ [][NextHash]_vars

\* ------------------------------------------------- runs over lines 124-189
\* train_one_model right after curation, with both stores unreadable, with a
\* dataset of TrainSamples valid samples and no or TrainCorrective candidates
InitTrain ==
    /\ all_pc = "direct" /\ si = 1 /\ ki = 1 /\ invoked = <<>>
    /\ pc = "L125" /\ skip = "" /\ e = ""
    /\ symbol = SYMBOLS[1] /\ strategy = Strategies[1] /\ max_epochs = DefaultMaxEpochs
    /\ df = "ok" /\ df_feat = [none |-> FALSE, rows |-> MinFeatureRows]
    /\ window = [int |-> TRUE, v |-> 2]
    /\ LET d == Dataset(TrainSamples, 2, {}, {})
           v == ValLen(TrainSamples)
       IN /\ X_raw = d.X /\ y_raw = d.y
          /\ val_len = v
          /\ X_train = PyButLast(d.X, v) /\ X_val = PyLast(d.X, v)
          /\ y_train = PyButLast(d.y, v) /\ y_val = PyLast(d.y, v)
    /\ input_size = FeatureWidth
    /\ store = NoStore /\ failure_hashes = {} /\ db = NoDb /\ frequent_failures = {}
    /\ wrong_data \in {<<>>, TrainWrongData}
    /\ wrong_filtered = Curate(wrong_data, 2, FeatureWidth, {}, {}).filtered
    /\ used_hashes = Curate(wrong_data, 2, FeatureWidth, {}, {}).used
    /\ mi = 1 /\ model = FreshModel /\ rep = 0 /\ epoch = 0 /\ batch = 0
    /\ loss = "unset" /\ metrics = NoMetrics
    /\ unit_log = <<>>
    /\ called = {"get_kline_by_strategy", "compute_features", "find_best_window",
                 "create_dataset", "load_existing_failure_hashes",
                 "load_training_prediction_data"}
    /\ attempted = {} /\ pt_written = {} /\ meta_written = {} /\ fi_saved = {}
    /\ phases = <<>>
    /\ NoHashCall
    /\ AppLoaded

NextTrain ==
    \/ GetModel \/ LoadCheckpoint \/ WrongBatch \/ TrainBatch \/ Evaluate
    \/ RejectOverfit \/ SaveWeights \/ SaveMetadata \/ LogResult \/ FeatureImportance
    \/ ExceptHandler

SpecTrain == InitTrain /\ [][NextTrain]_vars

\* ------------------------------------------------------------ app.py: /run
\* now - last_run_time < COOLTIME
CoolingDown_short(n, last) == n - last < COOLTIME - 1
CoolingDown(n, last) == n - last < COOLTIME

\* lines 22-31: a request comes in when the one before has been answered;
\* now = time.time() and the cooldown check
RunStart ==
    /\ run_pc = "idle" /\ served < MaxRequests
    /\ served' = served + 1
    /\ \E d \in ClockSteps : clock' = clock + d
    /\ now' = clock'
    /\ results' = <<>> /\ recommended' = FALSE /\ sent' = 0
    /\ IF CoolingDown(now', last_run_time)
       THEN run_pc' = "idle" /\ response' = "cooldown"
       ELSE run_pc' = "L32" /\ response' = ""
    /\ UNCHANGED <<last_run_time, completed, unitVars, hashVars>>

\* line 32: results = recommend_all(); when it raises the request ends in an
\* error response
RecommendAll ==
    /\ run_pc = "L32"
    /\ recommended' = TRUE
    /\ \/ \E r \in Recommendations : results' = r /\ run_pc' = "L33" /\ response' = response
       \/ run_pc' = "idle" /\ response' = "error" /\ UNCHANGED results
    /\ UNCHANGED <<clock, served, now, last_run_time, sent, completed, unitVars, hashVars>>

\* lines 33-35 and 40: last_run_time = now, then the test of results
SetLastRunTime ==
    /\ run_pc = "L33"
    /\ last_run_time' = now
    /\ completed' = Append(completed, now)
    /\ IF results # <<>>
       THEN run_pc' = "L37" /\ response' = response
       ELSE run_pc' = "idle" /\ response' = "none"
    /\ UNCHANGED <<clock, served, now, results, recommended, sent, unitVars, hashVars>>

\* lines 36-38: one send_recommendation(msg), and the response after the last
SendRecommendation ==
    /\ run_pc = "L37"
    /\ \/ /\ sent' = sent + 1
          /\ IF sent + 1 < Len(results)
             THEN run_pc' = "L37" /\ response' = response
             ELSE run_pc' = "idle" /\ response' = "done"
       \/ run_pc' = "idle" /\ response' = "error" /\ UNCHANGED sent
    /\ UNCHANGED <<clock, served, now, last_run_time, results, recommended, completed,
                   unitVars, hashVars>>

InitRun == NotTraining /\ NoHashCall /\ AppLoaded

NextRun == RunStart \/ RecommendAll \/ SetLastRunTime \/ SendRecommendation

SpecRun == InitRun /\ [][NextRun]_vars

\* ================================================================ claims
StratIdx(st) == CHOOSE i \in 1..Len(Strategies) : Strategies[i] = st
TypeIdx(mt) == CHOOSE i \in 1..Len(ModelTypes) : ModelTypes[i] = mt
AllTypes == {ModelTypes[i] : i \in 1..Len(ModelTypes)}
NumPairs == Len(Strategies) * NumSymbols

\* C1: in one call of train_all_models the calls of train_one_model are made
\* in strictly increasing (horizon, symbol) order, horizon first, so no pair
\* is called twice; when train_all_models ends every pair of the three
\* horizons and SYMBOLS has been called, whatever the earlier calls ended in.
C1_EveryPairOnceInOrder ==
    /\ \A m, n \in 1..Len(invoked) :
         m < n =>
           \/ StratIdx(invoked[m][1]) < StratIdx(invoked[n][1])
           \/ /\ invoked[m][1] = invoked[n][1]
              /\ invoked[m][2] < invoked[n][2]
    /\ all_pc = "call" => invoked[Len(invoked)] = <<strategy, symbol>>
    /\ all_pc = "done" =>
         /\ Len(invoked) = NumPairs
         /\ \A i \in 1..Len(Strategies), k \in 1..NumSymbols :
              \E n \in 1..Len(invoked) : invoked[n] = <<Strategies[i], SYMBOLS[k]>>

\* the batch is over, every pair was called, and the last call went through
\* the except clause
C1_Witness == all_pc = "done" /\ Len(invoked) = NumPairs /\ e # "" /\ skip = ""

\* C2: no exception leaves train_one_model or train_all_models; a call in
\* which a collaborator raised returns to the loop, which goes on to the next
\* pair (or ends after the last one), and the batch ends with all pairs called.
C2_BatchSurvivesFailures ==
    /\ [](pc # "raised" /\ all_pc \in {"loop", "call", "done"})
    /\ [](all_pc = "done" => Len(invoked) = NumPairs)
    /\ [][(all_pc = "call" /\ pc = "returned" /\ e # "")
            => /\ pc' = "idle"
               /\ IF LastPair
                  THEN all_pc' = "done"
                  ELSE all_pc' = "loop" /\ <<si', ki'>> # <<si, ki>>]_vars

\* the batch returned normally although market-data retrieval raised in its
\* last unit
C2_Witness == all_pc = "done" /\ e = "get_kline_by_strategy" /\ Len(invoked) = NumPairs

\* C3: when a call ends after an exception in the attempt for one
\* architecture, every later architecture of the unit has been attempted.
C3_SiblingsStillAttempted ==
    (pc = "returned" /\ e # "" /\ mi \in 1..Len(ModelTypes))
      => \A j \in (mi + 1)..Len(ModelTypes) : ModelTypes[j] \in attempted

\* C4: when a call of train_one_model ends, log_training_result has recorded
\* as many entries for the unit as there are architectures.
C4_OneEntryPerArchitecture ==
    pc = "returned" => Len(unit_log) = Len(ModelTypes)

\* C5: an overfit entry is logged only for an architecture whose accuracy is
\* at least 1.0 with at most 2 distinct validation labels, and its weight and
\* metadata files are not written in the call; a plain entry is logged only
\* for an architecture outside that case, after both files were written; no
\* file is written for an architecture inside that case; and an architecture
\* whose attempt ran to its end has exactly one entry.
C5_Labels == {y_val[i].v : i \in 1..Len(y_val)}
C5_Guarded(acc) == acc >= 100 /\ Cardinality(C5_Labels) <= 2
C5_Finished(a) ==
    \/ TypeIdx(a) < mi
    \/ TypeIdx(a) = mi /\ (pc = "L186" \/ (pc \in {"returned", "idle"} /\ e = ""))
C5_OverfitGuard ==
    /\ \A n \in 1..Len(unit_log) :
         /\ unit_log[n].kind = "overfit"
              => /\ C5_Guarded(unit_log[n].acc)
                 /\ unit_log[n].arg \notin pt_written \cup meta_written
         /\ unit_log[n].kind = "model"
              => /\ ~C5_Guarded(unit_log[n].acc)
                 /\ unit_log[n].arg \in pt_written \cap meta_written
    /\ (pc \in {"L182", "L183", "L186"}) => ~C5_Guarded(metrics.acc)
    /\ (pc \in {"L176", "L182", "L183"} /\ C5_Guarded(metrics.acc))
         => model_type \notin pt_written \cup meta_written
    /\ \A a \in AllTypes :
         (mi >= 1 /\ C5_Finished(a))
           => Cardinality({n \in 1..Len(unit_log) :
                              unit_log[n].kind \in {"overfit", "model"}
                              /\ unit_log[n].arg = a}) = 1

\* one architecture of a unit was rejected as overfit and another one of the
\* same unit was saved
C5_Witness ==
    /\ \E n \in 1..Len(unit_log) : unit_log[n].kind = "overfit"
    /\ \E n \in 1..Len(unit_log) :
         unit_log[n].kind = "model" /\ unit_log[n].arg \in pt_written

\* C6: the fail-fast checks come in the order no history, fewer than 30
\* feature rows, no positive-integer window, empty dataset, fewer than 5
\* valid samples, empty validation split: a collaborator is called only when
\* no earlier check held, and a call that ends in a check has called nothing
\* later, has logged nothing and has written no weight or metadata file.
C6_Prefix(why) ==
    CASE why = "no_data" -> {"get_kline_by_strategy"}
      [] why = "few_features" -> {"get_kline_by_strategy", "compute_features"}
      [] why = "no_window" ->
           {"get_kline_by_strategy", "compute_features", "find_best_window"}
      [] OTHER ->
           {"get_kline_by_strategy", "compute_features", "find_best_window",
            "create_dataset"}
C6_Later ==
    {"load_existing_failure_hashes", "load_training_prediction_data", "get_model",
     "torch.save", "save_model_metadata", "compute_feature_importance"}
C6_Valid == {i \in 1..Len(X_raw) : X_raw[i].arr /\ X_raw[i].ndim = 2
                                   /\ y_raw[i].int /\ y_raw[i].v \in 0..15}
C6_FailFastOrder ==
    /\ "compute_features" \in called => df = "ok"
    /\ "find_best_window" \in called => ~df_feat.none /\ df_feat.rows >= 30
    /\ "create_dataset" \in called => window.int /\ window.v > 0
    /\ (called \cap C6_Later # {} \/ attempted # {} \/ pc = "L105")
         => /\ Cardinality(C6_Valid) >= 5
            /\ Len(X_val) >= 1
    /\ skip # "" =>
         /\ pc \in {"returned", "idle"} /\ e = ""
         /\ called = C6_Prefix(skip)
         /\ unit_log = <<>> /\ pt_written = {} /\ meta_written = {}
         /\ attempted = {}
    /\ skip = "no_data" <=> df \in {"None", "empty"}
    /\ skip = "few_features" <=>
         ("compute_features" \in called /\ e # "compute_features"
          /\ (df_feat.none \/ df_feat.rows < 30))
    /\ skip = "no_window" <=>
         ("find_best_window" \in called /\ e # "find_best_window"
          /\ (~window.int \/ window.v <= 0))
    /\ skip = "no_dataset" <=>
         ("create_dataset" \in called /\ e # "create_dataset" /\ Len(X_raw) = 0)
    /\ skip = "few_sequences" <=>
         (Len(X_raw) > 0 /\ pc # "L83" /\ Cardinality(C6_Valid) < 5)

\* a call ended at the window check, after three collaborators and no more
C6_Witness ==
    /\ pc = "returned" /\ skip = "no_window"
    /\ called = {"get_kline_by_strategy", "compute_features", "find_best_window"}
    /\ df_feat.rows >= 30

\* C7: after the split of a filtered dataset of n samples the validation
\* partition is the last floor(n / 5) = floor(0.2 n) samples and the training
\* partition the first n - floor(n / 5), both in their original order:
\* disjoint, covering all n, every training sample before every validation
\* sample; for n = 10 the validation partition is the last 2.
C7_Floor(n) == CHOOSE k \in 0..n : 5 * k <= n /\ n < 5 * (k + 1)
C7_SplitIsSuffix ==
    pc = "L105" =>
      LET n == Len(X_raw)
          v == C7_Floor(n)
      IN /\ val_len = v
         /\ Len(X_val) = v /\ Len(y_val) = v
         /\ Len(X_train) = n - v /\ Len(y_train) = n - v
         /\ \A i \in 1..(n - v) : X_train[i] = X_raw[i] /\ y_train[i] = y_raw[i]
         /\ \A j \in 1..v : X_val[j] = X_raw[n - v + j] /\ y_val[j] = y_raw[n - v + j]
         /\ \A i, j \in 1..n : i < j => X_raw[i].id < X_raw[j].id
         /\ \A i \in 1..Len(X_train), j \in 1..Len(X_val) : X_train[i].id < X_val[j].id
         /\ {X_train[i].id : i \in 1..Len(X_train)} \cup {X_val[j].id : j \in 1..Len(X_val)}
              = {X_raw[i].id : i \in 1..n}
         /\ n = 10 => v = 2

\* ten valid samples were split: the validation partition is samples 9 and 10
C7_Witness ==
    /\ pc = "L105" /\ Len(X_raw) = 10 /\ Len(X_train) = 8
    /\ Len(X_val) = 2 /\ X_val[1].id = 9 /\ X_val[2].id = 10

C8_NValid ==
    Cardinality({i \in 1..Min(Len(X_raw), Len(y_raw)) :
                    X_raw[i].arr /\ X_raw[i].ndim = 2
                    /\ y_raw[i].int /\ y_raw[i].v \in 0..15})
C8_FilterEnded == pc = "returned" /\ skip \in {"few_sequences", "no_validation"}

\* C8 as stated: a call whose dataset has 4 valid samples computes val_len = 0
\* and ends at the val_len == 0 check.
C8_FourSamplesEndAtValidationCheck ==
    (C8_FilterEnded /\ C8_NValid = 4) => (val_len = 0 /\ skip = "no_validation")

\* C8 as amended: a call whose dataset has 4 valid samples ends at the check
\* for fewer than 5 valid samples, before val_len is computed, and no split
\* is attempted.
C8_FourSamplesEndAtSequenceCheck ==
    (C8_FilterEnded /\ C8_NValid = 4)
      => /\ skip = "few_sequences"
         /\ val_len = -1
         /\ X_train = <<>> /\ X_val = <<>> /\ y_train = <<>> /\ y_val = <<>>

\* a call ended after the filter on a dataset of 6 samples, 4 of them valid
C8_Witness ==
    /\ C8_FilterEnded /\ C8_NValid = 4 /\ Len(X_raw) = 6
    /\ called = {"get_kline_by_strategy", "compute_features", "find_best_window",
                 "create_dataset"}

\* C9: after the curation loop the admitted samples are exactly the
\* candidates of valid shape and label whose fingerprint is in neither
\* exclusion set and is not the fingerprint of an earlier admitted candidate,
\* in the order of the candidates; so the admitted fingerprints are pairwise
\* distinct, none is excluded, and a sample presented twice is admitted at
\* most once.
C9_Fp(i) == get_feature_hash_from_tensor(wrong_data[i].xb)
C9_Valid(i) ==
    LET s == wrong_data[i]
    IN /\ s.seq /\ s.xb.arr
       /\ <<s.xb.rows, s.xb.cols>> = <<window.v, input_size>>
       /\ s.yb.int /\ s.yb.v \in 0..15
C9_Free(i) == C9_Fp(i) \notin failure_hashes /\ C9_Fp(i) \notin frequent_failures
RECURSIVE C9_Admitted(_)
C9_Admitted(i) ==
    /\ C9_Valid(i) /\ C9_Free(i)
    /\ \A j \in 1..(i - 1) : ~(C9_Fp(j) = C9_Fp(i) /\ C9_Admitted(j))
C9_AdmittedSet == {i \in 1..Len(wrong_data) : C9_Admitted(i)}
C9_Nth(k) == CHOOSE i \in C9_AdmittedSet :
                 Cardinality({j \in C9_AdmittedSet : j < i}) = k - 1
C9_FpOfAdmitted(k) == get_feature_hash_from_tensor(wrong_filtered[k].xb)
C9_AdmissionRule ==
    pc = "L125" =>
      /\ Len(wrong_filtered) = Cardinality(C9_AdmittedSet)
      /\ \A k \in 1..Len(wrong_filtered) :
           wrong_filtered[k] = [xb |-> wrong_data[C9_Nth(k)].xb,
                                yb |-> wrong_data[C9_Nth(k)].yb]
      /\ \A k, l \in 1..Len(wrong_filtered) :
           k # l => C9_FpOfAdmitted(k) # C9_FpOfAdmitted(l)
      /\ \A k \in 1..Len(wrong_filtered) :
           C9_FpOfAdmitted(k) \notin failure_hashes \cup frequent_failures
      /\ used_hashes = {C9_FpOfAdmitted(k) : k \in 1..Len(wrong_filtered)}
      /\ \A i, j \in 1..Len(wrong_data) :
           (i < j /\ wrong_data[i] = wrong_data[j])
             => Cardinality({k \in 1..Len(wrong_filtered) :
                                wrong_filtered[k].xb = wrong_data[i].xb
                                /\ wrong_filtered[k].yb = wrong_data[i].yb}) <= 1

\* the same valid sample was presented twice, a second sample of the same
\* fingerprint and another label once, and one copy was admitted
C9_Witness ==
    /\ pc = "L125" /\ Len(wrong_data) = 3 /\ Len(wrong_filtered) = 1
    /\ wrong_data[1] = wrong_data[2] /\ wrong_data[3] # wrong_data[1]
    /\ \A i \in 1..3 : C9_Valid(i) /\ C9_Free(i)

\* C10: when the failure-pattern log was read, get_frequent_failures(m) is
\* the set of fingerprints with at least m rows, for every m; a fingerprint
\* with exactly 5 rows is in the set for m = 5, so none of its candidates is
\* admitted, and is not in the set for m = 6, so curation with that set
\* admits its first valid candidate unless it is a known failure.
C10_Count(h) == Cardinality({i \in 1..Len(db.rows) : db.rows[i] = h})
C10_Logged == {db.rows[i] : i \in 1..Len(db.rows)}
C10_CandidatesOf(h) ==
    {i \in 1..Len(wrong_data) : C9_Valid(i) /\ C9_Fp(i) = h}
C10_FrequentFailures ==
    (pc \in {"L109", "L110", "L125"} /\ db.ok) =>
      /\ frequent_failures = {h \in C10_Logged : C10_Count(h) >= 5}
      /\ \A m \in 0..(MaxRows + 2) :
           get_frequent_failures(db, m) = {h \in C10_Logged : C10_Count(h) >= m}
      /\ \A h \in C10_Logged :
           C10_Count(h) = 5 =>
             /\ h \in get_frequent_failures(db, 5)
             /\ h \notin get_frequent_failures(db, 6)
             /\ pc = "L125" =>
                  /\ \A k \in 1..Len(wrong_filtered) : C9_FpOfAdmitted(k) # h
                  /\ (C10_CandidatesOf(h) # {} /\ h \notin failure_hashes) =>
                       \E k \in 1..Len(wrong_data) :
                          /\ k \in C10_CandidatesOf(h)
                          /\ [xb |-> wrong_data[k].xb, yb |-> wrong_data[k].yb]
                               \in {Curate(wrong_data, window.v, input_size, failure_hashes,
                                           get_frequent_failures(db, 6)).filtered[n] :
                                      n \in 1..Len(Curate(wrong_data, window.v, input_size,
                                                          failure_hashes,
                                                          get_frequent_failures(db, 6)).filtered)}

\* the log holds exactly 5 rows of a fingerprint, a valid candidate has it,
\* it is no known failure, and curation is over: the candidate was left out
C10_Witness ==
    /\ pc = "L125" /\ db.ok
    /\ \E h \in C10_Logged :
         /\ C10_Count(h) = 5 /\ h \notin failure_hashes
         /\ C10_CandidatesOf(h) # {}
         /\ wrong_filtered = <<>>

\* C11: a failure-case store or a failure-pattern log that is unavailable or
\* malformed gives the empty set and raises nothing: the call goes on to load
\* and curate the corrective candidates, and the curated set is the one an
\* empty failure memory gives in place of each unreadable store; with both
\* unreadable it is the first valid candidate of every fingerprint.
C11_KnownIfReadable == IF store.ok THEN store.hashes ELSE {}
C11_FrequentIfReadable ==
    IF db.ok THEN {h \in C10_Logged : C10_Count(h) >= 5} ELSE {}
C11_FirstOfFingerprint(i) ==
    C9_Valid(i) /\ \A j \in 1..(i - 1) : ~(C9_Valid(j) /\ C9_Fp(j) = C9_Fp(i))
C11_EmptySetInsteadOfRaising ==
    /\ ~store.ok => failure_hashes = {}
    /\ ~db.ok => frequent_failures = {}
    /\ e \notin {"load_existing_failure_hashes", "get_frequent_failures"}
    /\ "load_training_prediction_data" \in called =>
         "load_existing_failure_hashes" \in called
    /\ pc \in {"L106", "L109", "L110", "L125"} => "load_existing_failure_hashes" \in called
    /\ pc = "L125" =>
         /\ wrong_filtered = Curate(wrong_data, window.v, input_size,
                                    C11_KnownIfReadable, C11_FrequentIfReadable).filtered
         /\ (~store.ok /\ ~db.ok) =>
              {<<wrong_filtered[k].xb, wrong_filtered[k].yb>> : k \in 1..Len(wrong_filtered)}
                = {<<wrong_data[i].xb, wrong_data[i].yb>> :
                     i \in {j \in 1..Len(wrong_data) : C11_FirstOfFingerprint(j)}}

\* both stores were unreadable although both hold the fingerprint of a valid
\* candidate (the log 5 times): the candidate was admitted
C11_Witness ==
    /\ pc = "L125" /\ ~store.ok /\ ~db.ok
    /\ store.hashes # {} /\ Len(db.rows) >= 5
    /\ \E k \in 1..Len(wrong_filtered) :
         /\ C9_FpOfAdmitted(k) \in store.hashes
         /\ C10_Count(C9_FpOfAdmitted(k)) >= 5

\* C14: an exception that reaches the except clause of line 191 never leaves
\* train_one_model: the call returns normally and the unit's log gets at most
\* one failed entry, as its last entry, labelled with the exception and with
\* accuracy, F1 and loss 0.0; the entry is missing only when recording it was
\* attempted and failed, and the call returns normally then too. A call in
\* which nothing was raised has no failed entry.
C14_Failed == {n \in 1..Len(unit_log) : unit_log[n].kind = "failed"}
C15_NumBatches(n, size) == CHOOSE k \in 0..n : (k - 1) * size < n /\ n <= k * size
C15_NonFinite == pc \in {"L146", "L159"} /\ pc' # "except" /\ loss' = "nonfinite"
C15_NonFiniteLossSkipsOnly ==
    /\ [][C15_NonFinite => (model' = model /\ e' = e /\ pc' \in {"L146", "L159", "L166"})]_vars
    /\ [][(C15_NonFinite /\ pc = "L146") =>
            IF batch + 1 < C15_NumBatches(Len(wrong_filtered), 16)
            THEN pc' = "L146" /\ rep' = rep /\ batch' = batch + 1
            ELSE IF rep < 5
                 THEN pc' = "L146" /\ rep' = rep + 1 /\ batch' = 0
                 ELSE pc' = "L159" /\ rep' = 6 /\ epoch' = 0 /\ batch' = 0]_vars
    /\ [][(C15_NonFinite /\ pc = "L159") =>
            IF epoch + 1 < max_epochs
            THEN pc' = "L159" /\ epoch' = epoch + 1 /\ batch' = 0
            ELSE pc' = "L166" /\ epoch' = max_epochs]_vars
    /\ [][(pc = "L166" /\ pc' # "except") => pc' = "L176"]_vars
    /\ [][(pc = "L176" /\ pc' # "except") =>
            \/ pt_written' = pt_written \cup {model_type}
            \/ /\ Len(unit_log') = Len(unit_log) + 1
               /\ unit_log'[Len(unit_log')].kind = "overfit"]_vars
    /\ [](pc = "L159" => (wrong_filtered = <<>> \/ rep = 6))
    /\ [](pc \in {"L166", "L176"} => epoch = max_epochs)

\* every batch of the 6 passes and of the 20 epochs of an architecture had a
\* non-finite loss: the model had no update and was evaluated
C15_Witness ==
    /\ pc = "L176" /\ loss = "nonfinite" /\ model.updates = 0
    /\ wrong_filtered # <<>> /\ rep = 6 /\ epoch = 20
    /\ metrics \in EvalResults

\* C16: for an accepted architecture whose feature-importance step failed,
\* the weight file, the metadata file and the log entry are there, the
\* failure is neither the exception of the call nor the label of a failed
\* entry, and the next architecture is attempted (after the last one the call
\* returns without any exception).
C16_Accepted(a) == \E n \in 1..Len(unit_log) :
                      unit_log[n].kind = "model" /\ unit_log[n].arg = a
C16_ImportanceFailed(a) ==
    /\ C16_Accepted(a) /\ a \notin fi_saved
    /\ mi >= 1
    /\ TypeIdx(a) < mi \/ (TypeIdx(a) = mi /\ pc # "L186")
C16_ImportanceFailureChangesNothing ==
    /\ e # "compute_feature_importance"
    /\ \A n \in 1..Len(unit_log) :
         unit_log[n].kind = "failed" => unit_log[n].arg # "compute_feature_importance"
    /\ \A a \in AllTypes :
         C16_ImportanceFailed(a) =>
           /\ a \in pt_written /\ a \in meta_written
           /\ TypeIdx(a) < Len(ModelTypes) =>
                \/ ModelTypes[TypeIdx(a) + 1] \in attempted
                \/ mi = TypeIdx(a) + 1 /\ pc = "L125"
           /\ TypeIdx(a) = mi =>
                pc \in {"returned", "idle"} /\ e = "" /\ C14_Failed = {}

\* the feature-importance step of the first architecture failed, its files
\* and its entry are there, and the other two were trained and accepted
C16_Witness ==
    /\ pc = "returned" /\ e = ""
    /\ "lstm" \notin fi_saved /\ C16_Accepted("lstm")
    /\ pt_written = AllTypes /\ meta_written = AllTypes
    /\ fi_saved = {"cnn_lstm", "transformer"}
    /\ Len(unit_log) = 3

\* C19: a plain log entry of an architecture exists only when its weight
\* file and its metadata file were written in this call, the metadata file
\* only when the weight file was, and the weight file only after the
\* evaluation of that architecture, with metrics outside the overfit case
\* (accuracy 1.0 with at most 2 distinct validation labels); an architecture
\* rejected as overfit has no weight file written.
C19_Current == pc \in {"L182", "L183", "L186"}
C19_WeightsMetadataLog ==
    /\ meta_written \subseteq pt_written
    /\ \A n \in 1..Len(unit_log) :
         /\ unit_log[n].kind = "model" =>
              /\ unit_log[n].arg \in pt_written \cap meta_written
              /\ ~C5_Guarded(unit_log[n].acc)
         /\ unit_log[n].kind = "overfit" => unit_log[n].arg \notin pt_written
    /\ pc = "L182" =>
         model_type \in pt_written \ meta_written /\ ~C16_Accepted(model_type)
    /\ pc = "L183" =>
         model_type \in pt_written \cap meta_written /\ ~C16_Accepted(model_type)
    /\ pc = "L186" => C16_Accepted(model_type)
    /\ C19_Current =>
         /\ ~C5_Guarded(metrics.acc)
         /\ \E i \in 1..Len(phases) : phases[i] = "evaluate"
    /\ (mi >= 1 /\ model_type \in pt_written /\ pc \notin {"L125", "L127"}) =>
         /\ ~C5_Guarded(metrics.acc)
         /\ \E i \in 1..Len(phases) : phases[i] = "evaluate"
         /\ \A i \in 1..Len(phases) : phases[i] # "reject"
    /\ (mi >= 1 /\ \E i \in 1..Len(phases) : phases[i] = "reject") =>
         model_type \notin pt_written

\* the first architecture was rejected as overfit and has no weight file, the
\* second has its weight file, its metadata file and its plain entry
C19_Witness ==
    /\ pc = "L186" /\ mi = 2
    /\ pt_written = {"cnn_lstm"} /\ meta_written = {"cnn_lstm"}
    /\ Len(unit_log) = 2
    /\ unit_log[1].kind = "overfit" /\ unit_log[1].arg = "lstm"
    /\ unit_log[2].kind = "model" /\ unit_log[2].arg = "cnn_lstm"

\* C17: the phases of the attempt for an architecture are entered in the
\* order checkpoint load, corrective replay (when and only when the
\* corrective set is non-empty), primary training, evaluation, then the
\* rejection or the persistence; primary training runs only after 6
\* corrective passes, evaluation only after max_epochs epochs, and a weight
\* file is written only after the evaluation.
C17_Order ==
    IF wrong_filtered # <<>>
    THEN <<"checkpoint", "corrective", "primary", "evaluate">>
    ELSE <<"checkpoint", "primary", "evaluate">>
C17_Last == IF phases = <<>> THEN "" ELSE phases[Len(phases)]
C17_Has(p) == \E i \in 1..Len(phases) : phases[i] = p
C17_PhasesInOrder ==
    /\ Len(phases) <= Len(C17_Order) + 1
    /\ \A i \in 1..Len(phases) :
         IF i <= Len(C17_Order)
         THEN phases[i] = C17_Order[i]
         ELSE phases[i] \in {"reject", "persist"}
    /\ pc = "L127" => phases = <<>>
    /\ pc = "L146" => C17_Last \in {"checkpoint", "corrective"} /\ rep < 6
    /\ pc = "L159" =>
         /\ C17_Last \in {"checkpoint", "corrective", "primary"}
         /\ wrong_filtered # <<>> => (rep = 6 /\ C17_Has("corrective"))
         /\ epoch < max_epochs
    /\ (C17_Has("primary") /\ wrong_filtered # <<>>) => rep = 6
    /\ pc = "L166" => C17_Last = "primary" /\ epoch = max_epochs
    /\ pc = "L176" => C17_Last = "evaluate"
    /\ pc \in {"L182", "L183", "L186"} => C17_Last = "persist"
    /\ (mi >= 1 /\ model_type \in pt_written /\ pc \notin {"L125", "L127"}) =>
         C17_Has("evaluate") /\ C17_Last = "persist"
    /\ (mi >= 1 /\ pc \notin {"L125", "L127"} /\ ~C17_Has("evaluate")) =>
         model_type \notin pt_written

\* the second architecture of a unit with corrective samples went through
\* all five phases and its weights were written
C17_Witness ==
    /\ pc = "L186" /\ mi = 2 /\ wrong_filtered # <<>>
    /\ phases = <<"checkpoint", "corrective", "primary", "evaluate", "persist">>
    /\ "cnn_lstm" \in pt_written

\* C18: the set of admitted samples does not depend on the order of the
\* candidates: curation of every reordering of the loaded candidates admits
\* the same set of (window, label) samples.
C18_Perms ==
    {p \in [1..Len(wrong_data) -> 1..Len(wrong_data)] :
        \A i, j \in 1..Len(wrong_data) : i # j => p[i] # p[j]}
C18_Reordered(p) == [i \in 1..Len(wrong_data) |-> wrong_data[p[i]]]
C18_Samples(f) == {f[k] : k \in 1..Len(f)}
C18_OrderDoesNotMatter ==
    pc = "L125" =>
      \A p \in C18_Perms :
         C18_Samples(Curate(C18_Reordered(p), window.v, input_size,
                            failure_hashes, frequent_failures).filtered)
           = C18_Samples(wrong_filtered)

\* C12: two non-empty two-dimensional windows whose last vectors are equal
\* after rounding every component to 2 decimals get the same fingerprint,
\* whatever their earlier rows and their lengths, and a tensor that is empty
\* or not two-dimensional gets the sentinel "invalid".
C12_Hundredths(v) == CHOOSE k \in -200..200 : 10 * k - v < 5 /\ v - 10 * k < 5
C12_Window(x) == x.ndim = 2 /\ x.rows > 0
C12_SameRounded(x, y) ==
    /\ Len(x.last) = Len(y.last)
    /\ \A i \in 1..Len(x.last) : C12_Hundredths(x.last[i]) = C12_Hundredths(y.last[i])
C12_FunctionOfRoundedLastVector ==
    hash_out # <<>> =>
      /\ (C12_Window(hash_in[1]) /\ C12_Window(hash_in[2])
          /\ C12_SameRounded(hash_in[1], hash_in[2]))
           => hash_out[1] = hash_out[2]
      /\ \A k \in 1..2 : ~C12_Window(hash_in[k]) => hash_out[k] = Invalid

\* C13 as stated: last vectors that agree in every component up to the second
\* decimal digit get equal fingerprints, and last vectors that differ within
\* the first 2 decimal digits of some component get different fingerprints.
C13_Trunc(v) == IF v < 0 THEN 0 - ((0 - v) \div 10) ELSE v \div 10
C13_AgreeTo2(u, v) == C13_Trunc(u) = C13_Trunc(v) /\ (u < 0) = (v < 0)
C13_BothWindows ==
    /\ hash_out # <<>>
    /\ C12_Window(hash_in[1]) /\ C12_Window(hash_in[2])
    /\ Len(hash_in[1].last) = Len(hash_in[2].last)
C13_DigitsDecide ==
    C13_BothWindows =>
      /\ (\A i \in 1..Len(hash_in[1].last) :
             C13_AgreeTo2(hash_in[1].last[i], hash_in[2].last[i]))
           => hash_out[1] = hash_out[2]
      /\ (\E i \in 1..Len(hash_in[1].last) :
             C13_Trunc(hash_in[1].last[i]) # C13_Trunc(hash_in[2].last[i]))
           => hash_out[1] # hash_out[2]

\* C13 as amended: two fingerprints are equal exactly when every component of
\* the two last vectors has the same value rounded to the nearest hundredth,
\* as round(v, 2) prints it (a negative value that rounds to zero prints as
\* -0.0, not as 0.0).
C13_Printed(v) == <<C12_Hundredths(v), v < 0 /\ C12_Hundredths(v) = 0>>
C13_RoundingDecides ==
    C13_BothWindows =>
      (hash_out[1] = hash_out[2]
         <=> \A i \in 1..Len(hash_in[1].last) :
                C13_Printed(hash_in[1].last[i]) = C13_Printed(hash_in[2].last[i]))

\* 1.006 and 1.014 differ in their second decimal digit and were given one
\* fingerprint, in windows of different lengths
C13_Witness ==
    /\ C13_BothWindows
    /\ hash_in[1].last[1] = 1006 /\ hash_in[2].last[1] = 1014
    /\ hash_in[1].rows # hash_in[2].rows
    /\ hash_out[1] = hash_out[2]

\* C20: recommend_all is called only in a request whose start time is at
\* least COOLTIME after last_run_time; a request answered with the cooldown
\* message has called neither recommend_all nor send_recommendation and
\* leaves last_run_time as it was; last_run_time changes only after
\* recommend_all has returned, to the start time of that request; and the
\* start times of the requests that ran recommend_all to its end are pairwise
\* at least COOLTIME apart.
C20_CooldownGate ==
    /\ [](run_pc \in {"L32", "L33"} => now - last_run_time >= 3600)
    /\ [](recommended => (now - last_run_time >= 3600 \/ last_run_time = now))
    /\ [](response = "cooldown" =>
            (~recommended /\ sent = 0 /\ now - last_run_time < 3600))
    /\ [](sent > 0 => recommended /\ last_run_time = now)
    /\ [][response' = "cooldown" => last_run_time' = last_run_time]_vars
    /\ [][last_run_time' # last_run_time =>
            (run_pc = "L33" /\ recommended /\ last_run_time' = now /\ now' = now)]_vars
    /\ [][run_pc = "L32" => last_run_time' = last_run_time]_vars
    /\ [](\A i, j \in 1..Len(completed) :
            i < j => completed[j] - completed[i] >= 3600)
    /\ [](completed # <<>> => last_run_time = completed[Len(completed)])

\* two requests ran recommend_all to its end, the second exactly COOLTIME
\* after the first, and a request between them was answered with the cooldown
\* message
C20_Witness ==
    /\ Len(completed) = 2 /\ completed[2] - completed[1] = 3600
    /\ served = 3 /\ run_pc = "idle" /\ response = "done" /\ sent = 2

====
